---- MODULE Spec2Model ----
(***************************************************************************)
(* The window registry of the NeuraOS desktop shell (the Desktop           *)
(* component): the list of open windows, the z-index allocation counter    *)
(* and the handlers openApp, closeWindow, minimizeWindow, maximizeWindow,  *)
(* focusWindow, updateWindowPosition and updateWindowSize.                 *)
(*                                                                         *)
(* Every handler runs in an event turn of its own: React re-renders the    *)
(* component between two turns, so the `windows` and `nextZIndex` a        *)
(* handler closes over are the current state.  Date.now() is the wall      *)
(* clock in milliseconds: it does not go back here, but nothing makes it   *)
(* advance between two turns.                                              *)
(*                                                                         *)
(* The registry is Spec.  SpecTurn adds the event turn in which a          *)
(* title-bar button issues two commands from one rendered snapshot.  The   *)
(* applets a window hosts keep state of their own and have specifications  *)
(* of their own: SpecTerminal (Terminal.tsx), SpecChat (AIAssistant.tsx)   *)
(* and SpecBrowser (Browser.tsx).  Each of them starts at the mount of its *)
(* applet and leaves the other components alone.                           *)
(***************************************************************************)
EXTENDS Integers, Sequences, FiniteSets, TLC

VARIABLES
    windows,      \* useState<AppWindow[]>([])
    nextZIndex,   \* useState(1000)
    now,          \* what Date.now() returns
    last,         \* history: the last command issued
    closed,       \* history: the ids that closeWindow has removed
    opened,       \* history: the types opened while only openApp was called
    steps,        \* history: the number of commands issued
    scen,         \* history: how far the commands follow the Notes scenario
    terminal,     \* the state of the terminal applet (Terminal.tsx)
    chat,         \* the state of the chat applet (AIAssistant.tsx)
    browser       \* the state of the browser applet (Browser.tsx)

registryVars == <<windows, nextZIndex, last, closed, opened, steps, scen>>
appletVars == <<terminal, chat, browser>>

vars == <<registryVars, now, appletVars>>

----------------------------------------------------------------------------
(* Bounds of the model *)

\* Date.now() ranges over 0..MaxNow
MaxNow == 1

\* at most MaxSteps commands are issued
MaxSteps == 5

----------------------------------------------------------------------------
(* Constants of the program *)

ZSeed == 1000
BaseOffset == 100
Stagger == 30
DefaultWidth == 800
DefaultHeight == 600

\* The (appType, title) pairs a launch is made with.  NotesApp and Terminal
\* are entries of desktopApps; constructor is a type outside the catalog,
\* and a name that every JavaScript object inherits a property for.
Launches ==
    { [component |-> "NotesApp", title |-> "Notes"],
      [component |-> "Terminal", title |-> "Terminal"],
      [component |-> "constructor", title |-> "Constructor"] }

AppTypes == { l.component : l \in Launches }

\* Date.now().toString()
NewId(t) == ToString(t)

\* Date.now() counts the milliseconds since 1970: an id made of it is never
\* one of the ids "1" and "2" that the applets give to their first items.
\* The applets read the clock as Epoch + now.
Epoch == 1000
Stamp(t) == ToString(Epoch + t)

\* every id a command can carry: those of windows that exist, existed or
\* never existed
IdSet == { NewId(t) : t \in 0..MaxNow }

\* setNextZIndex(nextZIndex + 1), faulty variant: the counter stays
NextZSame(nz) == nz

\* setNextZIndex(nextZIndex + 1)
NextZ(nz) == nz + 1

\* getAppIcon: the icon catalog of the taskbar, an object literal
icons ==
    [ FileManager |-> "Folder",
      NotesApp    |-> "FileText",
      CodeEditor  |-> "Code",
      AIAssistant |-> "Brain",
      Calendar    |-> "Calendar",
      Terminal    |-> "Terminal",
      Settings    |-> "Settings",
      Browser     |-> "Monitor" ]

\* the generic icon getAppIcon falls back to
FallbackIcon == "FileText"

\* some of the properties an object literal inherits from Object.prototype
ObjectPrototype ==
    { "constructor", "toString", "valueOf", "hasOwnProperty", "__proto__" }

Undefined == "undefined"

\* obj[key]: an own property, else an inherited one, else undefined
Lookup(obj, key) ==
    IF key \in DOMAIN obj
    THEN obj[key]
    ELSE IF key \in ObjectPrototype
         THEN "Object.prototype." \o key
         ELSE Undefined

\* getAppIcon(component): icons[component] || FileText
GetAppIcon(component) ==
    IF Lookup(icons, component) # Undefined
    THEN Lookup(icons, component)
    ELSE FallbackIcon

\* z-index of the chrome: the desktop icon grid (z-10), the taskbar (z-50)
IconGridZ == 10
TaskbarZ == 50

\* the floor the window controller puts under a size before it calls resize.
\* The specification gives the width floor (300) and names no value for the
\* height floor.
MinWidth == 300
MinHeight == 200

\* the position a pointer drag asks for, the size a resize drag asks for
Positions == { [x |-> 150, y |-> 80] }
Sizes == { [width |-> 200, height |-> 600] }

----------------------------------------------------------------------------
(* Helpers over the window list *)

Indices(ws) == 1..Len(ws)

Ids(ws) == { ws[i].id : i \in Indices(ws) }

\* windows.find(w => w.component === appType): the index of the first match,
\* 0 when there is none
FindByComponent(ws, appType) ==
    IF \E i \in Indices(ws) : ws[i].component = appType
    THEN CHOOSE i \in Indices(ws) :
            /\ ws[i].component = appType
            /\ \A j \in 1..(i-1) : ws[j].component # appType
    ELSE 0

----------------------------------------------------------------------------
(* The handlers, as functions of the rendered snapshot *)

\* faulty variant: isMinimized left as it is
FocusedListKeepMinimized(ws, nz, windowId) ==
    [ i \in Indices(ws) |->
        IF ws[i].id = windowId
        THEN [ws[i] EXCEPT !.zIndex = nz]
        ELSE ws[i] ]

\* faulty variant: the focused windows are also moved to the end of the list
FocusedListToEnd(ws, nz, windowId) ==
    LET rest == SelectSeq(ws, LAMBDA w : w.id # windowId)
        hits == SelectSeq(ws, LAMBDA w : w.id = windowId)
    IN  rest \o [ i \in Indices(hits) |->
                    [hits[i] EXCEPT !.zIndex = nz, !.isMinimized = FALSE] ]

\* focusWindow: windows.map(w => w.id === windowId
\*                  ? { ...w, zIndex: nextZIndex, isMinimized: false } : w)
FocusedList(ws, nz, windowId) ==
    [ i \in Indices(ws) |->
        IF ws[i].id = windowId
        THEN [ws[i] EXCEPT !.zIndex = nz, !.isMinimized = FALSE]
        ELSE ws[i] ]

\* faulty variant: zIndex: windows.length, the counter not used
NewWindowIndexZ(ws, nz, t, appType, title) ==
    [ id          |-> NewId(t),
      title       |-> title,
      component   |-> appType,
      isMinimized |-> FALSE,
      isMaximized |-> FALSE,
      position    |-> [ x |-> BaseOffset + Len(ws) * Stagger,
                        y |-> BaseOffset + Len(ws) * Stagger ],
      size        |-> [ width |-> DefaultWidth, height |-> DefaultHeight ],
      zIndex      |-> Len(ws) ]

\* openApp: the newWindow object
NewWindow(ws, nz, t, appType, title) ==
    [ id          |-> NewId(t),
      title       |-> title,
      component   |-> appType,
      isMinimized |-> FALSE,
      isMaximized |-> FALSE,
      position    |-> [ x |-> BaseOffset + Len(ws) * Stagger,
                        y |-> BaseOffset + Len(ws) * Stagger ],
      size        |-> [ width |-> DefaultWidth, height |-> DefaultHeight ],
      zIndex      |-> nz ]

\* faulty variant: a reopen returns without focusing the existing window
OpenedListNoRefocus(ws, nz, t, appType, title) ==
    IF FindByComponent(ws, appType) # 0
    THEN ws
    ELSE Append(ws, NewWindow(ws, nz, t, appType, title))

\* faulty variant: no look-up of an existing window of the type
OpenedListNoDedupe(ws, nz, t, appType, title) ==
    Append(ws, NewWindow(ws, nz, t, appType, title))

\* faulty variant: setWindows([newWindow]), the spread of windows forgotten
OpenedListNoSpread(ws, nz, t, appType, title) ==
    LET e == FindByComponent(ws, appType)
    IN  IF e # 0
        THEN FocusedList(ws, nz, ws[e].id)
        ELSE << NewWindow(ws, nz, t, appType, title) >>

\* openApp: focus the existing window of the type, or append a new one
OpenedList(ws, nz, t, appType, title) ==
    LET e == FindByComponent(ws, appType)
    IN  IF e # 0
        THEN FocusedList(ws, nz, ws[e].id)
        ELSE Append(ws, NewWindow(ws, nz, t, appType, title))

\* faulty variant: windows.splice(windows.findIndex(...), 1), which removes
\* the last window when findIndex returns -1
ClosedListSplice(ws, windowId) ==
    IF windowId \in Ids(ws)
    THEN LET k == CHOOSE i \in Indices(ws) :
                    /\ ws[i].id = windowId
                    /\ \A j \in 1..(i-1) : ws[j].id # windowId
         IN  SubSeq(ws, 1, k-1) \o SubSeq(ws, k+1, Len(ws))
    ELSE SubSeq(ws, 1, Len(ws) - 1)

\* closeWindow: windows.filter(w => w.id !== windowId)
ClosedList(ws, windowId) ==
    SelectSeq(ws, LAMBDA w : w.id # windowId)

\* faulty variant: the comparison inverted, w.id !== windowId
MinimizedListInverted(ws, windowId) ==
    [ i \in Indices(ws) |->
        IF ws[i].id # windowId
        THEN [ws[i] EXCEPT !.isMinimized = TRUE]
        ELSE ws[i] ]

\* faulty variant: a minimized window is also sent to the back
MinimizedListSendBack(ws, windowId) ==
    [ i \in Indices(ws) |->
        IF ws[i].id = windowId
        THEN [ws[i] EXCEPT !.isMinimized = TRUE, !.zIndex = 0]
        ELSE ws[i] ]

\* minimizeWindow: windows.map(w => w.id === windowId
\*                     ? { ...w, isMinimized: true } : w)
MinimizedList(ws, windowId) ==
    [ i \in Indices(ws) |->
        IF ws[i].id = windowId
        THEN [ws[i] EXCEPT !.isMinimized = TRUE]
        ELSE ws[i] ]

\* faulty variant: isMinimized left as it is
MaximizedListKeepMinimized(ws, windowId) ==
    [ i \in Indices(ws) |->
        IF ws[i].id = windowId
        THEN [ws[i] EXCEPT !.isMaximized = ~ws[i].isMaximized]
        ELSE ws[i] ]

\* faulty variant: turning isMaximized on overwrites the stored position
\* with the viewport's corner, and nothing keeps the old one
MaximizedListOverwrite(ws, windowId) ==
    [ i \in Indices(ws) |->
        IF ws[i].id = windowId
        THEN [ws[i] EXCEPT !.isMaximized = ~ws[i].isMaximized,
                           !.isMinimized = FALSE,
                           !.position = IF ws[i].isMaximized
                                        THEN ws[i].position
                                        ELSE [x |-> 0, y |-> 0]]
        ELSE ws[i] ]

\* maximizeWindow: windows.map(w => w.id === windowId
\*     ? { ...w, isMaximized: !w.isMaximized, isMinimized: false } : w)
MaximizedList(ws, windowId) ==
    [ i \in Indices(ws) |->
        IF ws[i].id = windowId
        THEN [ws[i] EXCEPT !.isMaximized = ~ws[i].isMaximized,
                           !.isMinimized = FALSE]
        ELSE ws[i] ]

\* faulty variant: { x: position.x, y: position.x }
MovedListTypo(ws, windowId, position) ==
    [ i \in Indices(ws) |->
        IF ws[i].id = windowId
        THEN [ws[i] EXCEPT !.position = [x |-> position.x, y |-> position.x]]
        ELSE ws[i] ]

\* updateWindowPosition: windows.map(w => w.id === windowId
\*                           ? { ...w, position } : w)
MovedList(ws, windowId, position) ==
    [ i \in Indices(ws) |->
        IF ws[i].id = windowId
        THEN [ws[i] EXCEPT !.position = position]
        ELSE ws[i] ]

\* faulty variant: the id is not looked at
ResizedListAll(ws, windowId, size) ==
    [ i \in Indices(ws) |-> [ws[i] EXCEPT !.size = size] ]

\* updateWindowSize: windows.map(w => w.id === windowId ? { ...w, size } : w)
ResizedList(ws, windowId, size) ==
    [ i \in Indices(ws) |->
        IF ws[i].id = windowId
        THEN [ws[i] EXCEPT !.size = size]
        ELSE ws[i] ]

----------------------------------------------------------------------------
(* The window controller (WindowManager), which issues move and resize *)

Max(a, b) == IF a >= b THEN a ELSE b

\* faulty variant: the requested size passed on as it is
ClampSizeNone(size) == size

\* drag-to-resize: the floor is enforced before resize is called
ClampSize(size) ==
    [ width  |-> Max(MinWidth, size.width),
      height |-> Max(MinHeight, size.height) ]

\* faulty variant: a maximized window takes drag input
DraggableAlways(ws, windowId) == TRUE

\* move and resize are disabled while the window is maximized
Draggable(ws, windowId) ==
    \A i \in Indices(ws) : ws[i].id = windowId => ~ws[i].isMaximized

----------------------------------------------------------------------------
(* History *)

NoArg == << >>

NoCommand ==
    [ op |-> "none", id |-> "", app |-> "", hit |-> FALSE, again |-> FALSE,
      before |-> "none", arg |-> NoArg, geom |-> << >>, via |-> "" ]

\* the stored position and size of the windows with the id, in list order
Geometry(ws, windowId) ==
    LET sel == SelectSeq(ws, LAMBDA w : w.id = windowId)
    IN  [ i \in Indices(sel) |->
            [position |-> sel[i].position, size |-> sel[i].size] ]

\* a command with a window id: hit says whether the id was in the registry,
\* again whether the command before was the same command on the same id,
\* before which command came before on the same id.  For maximize, geom is
\* the geometry before the first of the maximize calls made in a row.
IdCommand(op, windowId) ==
    [ op     |-> op,
      id     |-> windowId,
      app    |-> "",
      hit    |-> windowId \in Ids(windows),
      again  |-> last.op = op /\ last.id = windowId,
      before |-> IF last.id = windowId THEN last.op ELSE "none",
      arg    |-> NoArg,
      geom   |-> IF op # "maximize"
                 THEN << >>
                 ELSE IF last.op = "maximize" /\ last.id = windowId
                      THEN last.geom
                      ELSE Geometry(windows, windowId),
      via    |-> "" ]

\* move(id, position), resize(id, size): arg is what the registry is given
ArgCommand(op, windowId, arg) ==
    [ IdCommand(op, windowId) EXCEPT !.arg = arg ]

\* openApp(appType, ...): id is the window focused or created, hit says
\* whether the type had a window
OpenCommand(appType) ==
    LET e == FindByComponent(windows, appType)
    IN  [ op    |-> "open",
          id    |-> IF e # 0 THEN windows[e].id ELSE NewId(now),
          app   |-> appType,
          hit   |-> e # 0,
          again |-> last.op = "open" /\ last.app = appType,
          before |-> IF last.op = "open" /\ last.app = appType
                     THEN "open" ELSE "none",
          arg   |-> NoArg,
          geom  |-> << >>,
          via   |-> "" ]

\* visible(): windows.filter(w => !w.isMinimized)
Visible(ws) == SelectSeq(ws, LAMBDA w : ~w.isMinimized)

\* faulty variant: the taskbar lists every window
TaskbarEntriesAll(ws) ==
    [ k \in Indices(ws) |->
        [ key   |-> ws[k].id,
          icon  |-> GetAppIcon(ws[k].component),
          title |-> ws[k].title ] ]

\* the buttons of the taskbar's open-windows row:
\* windows.filter(w => !w.isMinimized).map(window => <Button key=... >)
TaskbarEntries(ws) ==
    LET shown == SelectSeq(ws, LAMBDA w : ~w.isMinimized)
    IN  [ k \in Indices(shown) |->
            [ key   |-> shown[k].id,
              icon  |-> GetAppIcon(shown[k].component),
              title |-> shown[k].title ] ]

\* The scenario: open Notes, open Notes, open Terminal, minimize W1,
\* focus W1, from the empty registry.  stage counts the steps made, w1 and
\* w2 are the ids the opens returned; any other command leaves the scenario.
ScenarioOff == [stage |-> -1, w1 |-> "", w2 |-> ""]

ScenarioStep(sc, cmd) ==
    IF sc.stage = 0 /\ cmd.op = "open" /\ cmd.app = "NotesApp"
    THEN [stage |-> 1, w1 |-> cmd.id, w2 |-> ""]
    ELSE IF sc.stage = 1 /\ cmd.op = "open" /\ cmd.app = "NotesApp"
    THEN [sc EXCEPT !.stage = 2]
    ELSE IF sc.stage = 2 /\ cmd.op = "open" /\ cmd.app = "Terminal"
    THEN [sc EXCEPT !.stage = 3, !.w2 = cmd.id]
    ELSE IF sc.stage = 3 /\ cmd.op = "minimize" /\ cmd.id = sc.w1
    THEN [sc EXCEPT !.stage = 4]
    ELSE IF sc.stage = 4 /\ cmd.op = "focus" /\ cmd.id = sc.w1
    THEN [sc EXCEPT !.stage = 5]
    ELSE ScenarioOff

\* the commands that name a window id
IdOps == {"close", "minimize", "maximize", "focus", "move", "resize"}

\* any command but openApp ends a sequence of opens only
NotOnlyOpens == [pure |-> FALSE, types |-> {}]

----------------------------------------------------------------------------
(* The applets after the mount *)

\* an applet is mounted with its window; the registry does not look into it
Unmounted == [mounted |-> FALSE]

\* Terminal history: no command has been executed since the last key
NoRun == [cmd |-> "", done |-> FALSE]

\* AIAssistant: the first message of the list
Welcome == [id |-> "1", role |-> "assistant", content |-> "Hello!"]

\* AIAssistant: no sendMessage is in progress
Idle ==
    [ pc |-> "idle", text |-> "", userId |-> "", assistantId |-> "",
      chunks |-> << >>, fullResponse |-> "" ]

\* Terminal: the two welcome lines, an empty input, no history.
\*   lines, currentCommand, commandHistory, historyIndex: the useState cells
\*   asking: the loading lines of the /ask requests in flight
\*   ran: history, the last command and whether executeCommand is through
TerminalInit ==
    terminal =
        [ lines |-> << [id |-> "1", type |-> "output",
                        content |-> "Welcome to NeuraOS Terminal v1.0"],
                       [id |-> "2", type |-> "output",
                        content |-> "Type \"help\" for available commands or \"/ask <question>\" for AI assistance."] >>,
          currentCommand |-> "",
          commandHistory |-> << >>,
          historyIndex   |-> -1,
          asking         |-> << >>,
          ran            |-> NoRun ]

\* AIAssistant: the welcome message; history is what ai_chat_history holds.
\*   messages, inputMessage, isStreaming: the useState cells
\*   user: useAuth().user, whether somebody is logged in
\*   stored: the rows of ai_chat_history of the user
\*   messagesRef: the identity of the messages array, modulo 2
\*   send: where the sendMessage in progress stands
\*   loads: the loadChatHistory calls in flight
\*   requests: history, the number of sendMessage calls that went on
ChatInit(history) ==
    chat =
        [ user         |-> FALSE,
          stored       |-> history,
          messages     |-> << Welcome >>,
          messagesRef  |-> 0,
          inputMessage |-> "",
          isStreaming  |-> FALSE,
          send         |-> Idle,
          loads        |-> 0,
          requests     |-> 0 ]

\* Browser: one active tab
BrowserInit ==
    browser =
        [ tabs |-> << [id |-> "1", url |-> "https://lovable.dev",
                       title |-> "Lovable - AI Web Development",
                       isActive |-> TRUE] >>,
          addressBar |-> "https://lovable.dev" ]

----------------------------------------------------------------------------
(* The state machine *)

\* a command is issued
Command ==
    /\ steps < MaxSteps
    /\ steps' = steps + 1
    /\ UNCHANGED appletVars

RegistryInit ==
    /\ windows = << >>
    /\ nextZIndex = ZSeed
    /\ now = 0
    /\ last = NoCommand
    /\ closed = {}
    /\ opened = [pure |-> TRUE, types |-> {}]
    /\ steps = 0
    /\ scen = [stage |-> 0, w1 |-> "", w2 |-> ""]

\* the desktop after the mount: no window, and so no applet
Init ==
    /\ RegistryInit
    /\ terminal = Unmounted
    /\ chat = Unmounted
    /\ browser = Unmounted

\* the wall clock advances
Tick ==
    /\ now < MaxNow
    /\ now' = now + 1
    /\ UNCHANGED <<registryVars, appletVars>>

\* focusWindow, called by the window (via "") or by a taskbar entry
FocusFrom(windowId, via) ==
    /\ Command
    /\ windows' = FocusedList(windows, nextZIndex, windowId)
    /\ nextZIndex' = NextZ(nextZIndex)
    /\ last' = [ IdCommand("focus", windowId) EXCEPT !.via = via ]
    /\ scen' = ScenarioStep(scen, last')
    /\ opened' = NotOnlyOpens
    /\ UNCHANGED <<now, closed>>

focusWindow(windowId) == FocusFrom(windowId, "")

\* a click on the k-th entry of the taskbar: onWindowClick(window.id)
TaskbarClick(k) ==
    /\ k \in Indices(TaskbarEntries(windows))
    /\ FocusFrom(TaskbarEntries(windows)[k].key, "taskbar")

openApp(appType, title) ==
    /\ Command
    /\ windows' = OpenedList(windows, nextZIndex, now, appType, title)
    /\ nextZIndex' = NextZ(nextZIndex)
    /\ last' = OpenCommand(appType)
    /\ scen' = ScenarioStep(scen, last')
    /\ opened' = IF opened.pure
                 THEN [opened EXCEPT !.types = @ \cup {appType}]
                 ELSE opened
    /\ UNCHANGED <<now, closed>>

closeWindow(windowId) ==
    /\ Command
    /\ windows' = ClosedList(windows, windowId)
    /\ last' = IdCommand("close", windowId)
    /\ scen' = ScenarioStep(scen, last')
    /\ closed' = IF windowId \in Ids(windows) THEN closed \cup {windowId} ELSE closed
    /\ opened' = NotOnlyOpens
    /\ UNCHANGED <<nextZIndex, now>>

minimizeWindow(windowId) ==
    /\ Command
    /\ windows' = MinimizedList(windows, windowId)
    /\ last' = IdCommand("minimize", windowId)
    /\ scen' = ScenarioStep(scen, last')
    /\ opened' = NotOnlyOpens
    /\ UNCHANGED <<nextZIndex, now, closed>>

maximizeWindow(windowId) ==
    /\ Command
    /\ windows' = MaximizedList(windows, windowId)
    /\ last' = IdCommand("maximize", windowId)
    /\ scen' = ScenarioStep(scen, last')
    /\ opened' = NotOnlyOpens
    /\ UNCHANGED <<nextZIndex, now, closed>>

updateWindowPosition(windowId, position) ==
    /\ Command
    /\ windows' = MovedList(windows, windowId, position)
    /\ last' = ArgCommand("move", windowId, position)
    /\ scen' = ScenarioStep(scen, last')
    /\ opened' = NotOnlyOpens
    /\ UNCHANGED <<nextZIndex, now, closed>>

updateWindowSize(windowId, size) ==
    /\ Command
    /\ windows' = ResizedList(windows, windowId, size)
    /\ last' = ArgCommand("resize", windowId, size)
    /\ scen' = ScenarioStep(scen, last')
    /\ opened' = NotOnlyOpens
    /\ UNCHANGED <<nextZIndex, now, closed>>

\* drag input on a maximized window: no command is issued to the registry
RejectDrag(windowId) ==
    /\ Command
    /\ last' = IdCommand("rejected", windowId)
    /\ scen' = ScenarioStep(scen, last')
    /\ UNCHANGED <<windows, nextZIndex, now, closed, opened>>

\* pointer-move while the title bar is captured
DragMove(windowId, position) ==
    IF Draggable(windows, windowId)
    THEN updateWindowPosition(windowId, position)
    ELSE RejectDrag(windowId)

\* pointer-move while the resize handle is captured
DragResize(windowId, size) ==
    IF Draggable(windows, windowId)
    THEN updateWindowSize(windowId, ClampSize(size))
    ELSE RejectDrag(windowId)

Next ==
    \/ Tick
    \/ \E l \in Launches : openApp(l.component, l.title)
    \/ \E id \in IdSet : closeWindow(id)
    \/ \E id \in IdSet : minimizeWindow(id)
    \/ \E id \in IdSet : maximizeWindow(id)
    \/ \E id \in IdSet : focusWindow(id)
    \/ \E k \in Indices(windows) : TaskbarClick(k)
    \/ \E id \in IdSet, p \in Positions : DragMove(id, p)
    \/ \E id \in IdSet, s \in Sizes : DragResize(id, s)

Spec == Init /\ [][Next]_vars

----------------------------------------------------------------------------
(* An event turn with two commands *)

\* The handlers of one render close over the same windows and nextZIndex,
\* and each of them ends in setWindows(value) with a value computed from
\* that snapshot.  Two handlers that run in one event turn are batched: the
\* last setWindows and the last setNextZIndex of the turn are what the next
\* render shows.

ButtonOps == {"close", "minimize", "maximize"}

\* what one handler hands to setWindows and to setNextZIndex
Effect(ws, nz, op, windowId) ==
    [ windows |->
        CASE op = "focus"    -> FocusedList(ws, nz, windowId)
          [] op = "close"    -> ClosedList(ws, windowId)
          [] op = "minimize" -> MinimizedList(ws, windowId)
          [] op = "maximize" -> MaximizedList(ws, windowId),
      nextZIndex |-> IF op = "focus" THEN NextZ(nz) ELSE nz ]

\* two handlers in two turns: the second one sees what the first one set
Serial(ws, nz, op1, op2, windowId) ==
    LET mid == Effect(ws, nz, op1, windowId)
    IN  Effect(mid.windows, mid.nextZIndex, op2, windowId)

\* two handlers in one turn: both see ws and nz, the later setter wins
Batched(ws, nz, op1, op2, windowId) ==
    [ windows    |-> Effect(ws, nz, op2, windowId).windows,
      nextZIndex |-> IF "focus" \in {op1, op2} THEN NextZ(nz) ELSE nz ]

\* a pointer press on a title-bar button: focus(id) and the button's command
\* are issued in the same turn, in the order op1, op2
ButtonTurn(windowId, op1, op2) ==
    /\ Command
    /\ windows' = Batched(windows, nextZIndex, op1, op2, windowId).windows
    /\ nextZIndex' = Batched(windows, nextZIndex, op1, op2, windowId).nextZIndex
    /\ last' = [ IdCommand("turn", windowId) EXCEPT !.arg = <<op1, op2>> ]
    /\ scen' = ScenarioStep(scen, last')
    /\ closed' = IF windowId \in Ids(windows) /\ windowId \notin Ids(windows')
                 THEN closed \cup {windowId} ELSE closed
    /\ opened' = NotOnlyOpens
    /\ UNCHANGED now

NextTurn ==
    \/ Next
    \/ \E id \in IdSet, op \in ButtonOps : ButtonTurn(id, "focus", op)
    \/ \E id \in IdSet, op \in ButtonOps : ButtonTurn(id, op, "focus")

SpecTurn == Init /\ [][NextTurn]_vars

----------------------------------------------------------------------------
(* The terminal applet: Terminal.tsx *)

\* at most MaxHistory commands are executed
MaxHistory == 2

\* what the input line can hold after an edit
Texts == { "", " ", "ls", "Clear", "clear", "/ask hi", "zz" }

\* what generateResponse resolves with
Answers == { "42" }

StartsWith(s, prefix) ==
    Len(s) >= Len(prefix) /\ SubSeq(s, 1, Len(prefix)) = prefix

\* s.slice(n)
Slice(s, n) == SubSeq(s, n + 1, Len(s))

RECURSIVE TrimStart(_)
TrimStart(s) ==
    IF s # "" /\ SubSeq(s, 1, 1) = " " THEN TrimStart(Slice(s, 1)) ELSE s

RECURSIVE TrimEnd(_)
TrimEnd(s) ==
    IF s # "" /\ SubSeq(s, Len(s), Len(s)) = " "
    THEN TrimEnd(SubSeq(s, 1, Len(s) - 1))
    ELSE s

\* s.trim()
Trim(s) == TrimEnd(TrimStart(s))

UpperCase ==
    [ A |-> "a", B |-> "b", C |-> "c", D |-> "d", E |-> "e", F |-> "f",
      G |-> "g", H |-> "h", I |-> "i", J |-> "j", K |-> "k", L |-> "l",
      M |-> "m", N |-> "n", O |-> "o", P |-> "p", Q |-> "q", R |-> "r",
      S |-> "s", T |-> "t", U |-> "u", V |-> "v", W |-> "w", X |-> "x",
      Y |-> "y", Z |-> "z" ]

\* s.toLowerCase()
RECURSIVE ToLowerCase(_)
ToLowerCase(s) ==
    IF s = ""
    THEN ""
    ELSE LET c == SubSeq(s, 1, 1)
         IN  (IF c \in DOMAIN UpperCase THEN UpperCase[c] ELSE c)
                 \o ToLowerCase(Slice(s, 1))

\* the commands Tab completes to
Completions ==
    << "help", "clear", "ls", "pwd", "whoami", "date", "neuraos", "/ask " >>

\* the `output` and `suggestion` of a command that is neither /ask nor clear.
\* The texts of help, neuraos and ps are cut to their first line; date
\* prints the clock and uptime a random number.
Reply(command, t) ==
    LET cmd == Trim(command)
        lowerCmd == ToLowerCase(cmd)
        plain(text) == [output |-> text, suggestion |-> ""]
    IN  IF StartsWith(cmd, "/ask ")
        THEN plain("Usage: /ask <your question>")
        ELSE CASE lowerCmd = "help"    -> plain("Available commands:")
               [] lowerCmd = "ls"      ->
                    [ output |-> "Documents/  Projects/  Downloads/  welcome.txt  notes.md",
                      suggestion |-> "Try: ls -la for detailed listing" ]
               [] lowerCmd = "pwd"     -> plain("/home/neuraos-user")
               [] lowerCmd = "whoami"  -> plain("neuraos-user")
               [] lowerCmd = "date"    -> plain(ToString(t))
               [] lowerCmd = "neuraos" ->
                    plain("NeuraOS - Intelligent Web Operating System")
               [] lowerCmd = "ps"      -> plain("PID  COMMAND")
               [] lowerCmd = "uptime"  -> plain("System uptime: 0:00")
               [] OTHER ->
                    IF StartsWith(lowerCmd, "echo ")
                    THEN plain(Slice(command, 5))
                    ELSE IF StartsWith(lowerCmd, "cd ")
                    THEN [ output |-> "Changed directory to: " \o Slice(command, 3),
                           suggestion |-> "Use \"pwd\" to see current directory" ]
                    ELSE IF StartsWith(lowerCmd, "mkdir ")
                    THEN plain("Created directory: " \o Slice(command, 6))
                    ELSE IF StartsWith(lowerCmd, "touch ")
                    THEN plain("Created file: " \o Slice(command, 6))
                    ELSE [ output |-> "Command not found: " \o cmd,
                           suggestion |-> "Type \"help\" for available commands or \"/ask <question>\" for AI help" ]

\* the lines a command that is neither /ask nor clear appends
ReplyLines(command, t) ==
    LET reply == Reply(command, t)
        commandLine == [id |-> Stamp(t), type |-> "command",
                        content |-> "$ " \o command]
        outputLine == [id |-> Stamp(t + 1), type |-> "output",
                       content |-> reply.output]
        suggestionLine == [id |-> Stamp(t + 2), type |-> "suggestion",
                           content |-> "Suggestion: " \o reply.suggestion]
    IN  IF reply.suggestion # ""
        THEN << commandLine, outputLine, suggestionLine >>
        ELSE << commandLine, outputLine >>

\* which branch of executeCommand a command takes
IsAsk(command) ==
    /\ StartsWith(Trim(command), "/ask ")
    /\ Trim(Slice(Trim(command), 5)) # ""

IsClear(command) ==
    /\ ~StartsWith(Trim(command), "/ask ")
    /\ ToLowerCase(Trim(command)) = "clear"

\* lines.map(line => line.id === id ? {...line, content} : line)
Rewritten(ls, id, content) ==
    [ i \in 1..Len(ls) |->
        IF ls[i].id = id THEN [ls[i] EXCEPT !.content = content] ELSE ls[i] ]

\* the input is disabled while useGemini reports loading
aiLoading == terminal.asking # << >>

\* executeCommand up to the await of generateResponse, or to its end when
\* the command is not /ask
executeCommand(command) ==
    LET history == Append(terminal.commandHistory, command)
    IN  IF IsAsk(command)
        THEN terminal' =
               [ terminal EXCEPT
                   !.commandHistory = history,
                   !.lines = @ \o << [id |-> Stamp(now), type |-> "command",
                                      content |-> "$ " \o command],
                                     [id |-> Stamp(now + 1), type |-> "ai",
                                      content |-> "AI is thinking..."] >>,
                   !.asking = << Stamp(now + 1) >>,
                   !.ran = [cmd |-> command, done |-> FALSE] ]
        ELSE IF StartsWith(Trim(command), "/ask ")
        THEN \* /ask without a question: isAICommand is set, no line is added
             terminal' =
               [ terminal EXCEPT
                   !.commandHistory = history,
                   !.currentCommand = "",
                   !.historyIndex = -1,
                   !.ran = [cmd |-> command, done |-> TRUE] ]
        ELSE IF IsClear(command)
        THEN terminal' =
               [ terminal EXCEPT
                   !.commandHistory = history,
                   !.lines = << >>,
                   !.currentCommand = "",
                   !.ran = [cmd |-> command, done |-> TRUE] ]
        ELSE terminal' =
               [ terminal EXCEPT
                   !.commandHistory = history,
                   !.lines = @ \o ReplyLines(command, now),
                   !.currentCommand = "",
                   !.historyIndex = -1,
                   !.ran = [cmd |-> command, done |-> TRUE] ]

\* generateResponse settles: executeCommand goes on after the await
AskSettles(content) ==
    /\ aiLoading
    /\ terminal' =
         [ terminal EXCEPT
             !.lines = Rewritten(@, terminal.asking[1], content),
             !.asking = << >>,
             !.currentCommand = "",
             !.historyIndex = -1,
             !.ran = [@ EXCEPT !.done = TRUE] ]
    /\ UNCHANGED <<registryVars, now, chat, browser>>

AskResolves == \E answer \in Answers : AskSettles("AI: " \o answer)

AskRejects ==
    AskSettles("AI: Sorry, I encountered an error. Please try again.")

Keys == {"Enter", "ArrowUp", "ArrowDown", "Tab"}

handleKeyDown(key) ==
    /\ ~aiLoading
    /\ LET count == Len(terminal.commandHistory)
           index == terminal.historyIndex
           recall(newIndex) ==
               [ terminal EXCEPT
                   !.historyIndex = newIndex,
                   !.currentCommand = terminal.commandHistory[count - newIndex],
                   !.ran = NoRun ]
           matches == SelectSeq(Completions,
                          LAMBDA c : StartsWith(c, terminal.currentCommand))
       IN  CASE key = "Enter" ->
                  /\ Trim(terminal.currentCommand) # ""
                  /\ count < MaxHistory
                  /\ executeCommand(terminal.currentCommand)
             [] key = "ArrowUp" ->
                  /\ index < count - 1
                  /\ terminal' = recall(index + 1)
             [] key = "ArrowDown" ->
                  \/ /\ index > 0
                     /\ terminal' = recall(index - 1)
                  \/ /\ index = 0
                     /\ terminal' = [ terminal EXCEPT !.historyIndex = -1,
                                                      !.currentCommand = "",
                                                      !.ran = NoRun ]
             [] key = "Tab" ->
                  /\ Len(matches) = 1
                  /\ terminal' = [ terminal EXCEPT !.currentCommand = matches[1],
                                                   !.ran = NoRun ]
    /\ UNCHANGED <<registryVars, now, chat, browser>>

\* onChange of the input: setCurrentCommand(e.target.value)
EditCommand(text) ==
    /\ ~aiLoading
    /\ text # terminal.currentCommand
    /\ terminal' = [ terminal EXCEPT !.currentCommand = text, !.ran = NoRun ]
    /\ UNCHANGED <<registryVars, now, chat, browser>>

TerminalNext ==
    \/ Tick
    \/ \E text \in Texts : EditCommand(text)
    \/ \E key \in Keys : handleKeyDown(key)
    \/ AskResolves
    \/ AskRejects

\* the terminal applet after its mount
TerminalSpecInit ==
    /\ RegistryInit
    /\ TerminalInit
    /\ chat = Unmounted
    /\ browser = Unmounted

SpecTerminal == TerminalSpecInit /\ [][TerminalNext]_vars

----------------------------------------------------------------------------
(* The chat applet: AIAssistant.tsx *)

\* at most MaxSends calls of sendMessage run to their end
MaxSends == 1

\* the chunks streamResponse hands over before it resolves
Responses == { << "Hi" >> }

\* what the input can hold after an edit
ChatTexts == { "", "hi" }

\* what ai_chat_history holds for the user at the mount
Histories ==
    { << >>, << [id |-> "row1", role |-> "user", content |-> "old"] >> }

\* useGemini().loading: a request to the model is in flight
Loading(c) == c.send.pc = "stream"

\* useEffect(() => { if (user) loadChatHistory() }, [user, loadChatHistory]):
\* the effect runs after a render in which user or loadChatHistory changed
Effect1(c) == IF c.user THEN [c EXCEPT !.loads = @ + 1] ELSE c

\* setMessages(value): the array is a new one, so loadChatHistory
\* (useCallback(..., [user, messages])) is a new function in the next render
\* and the effect runs again
SetMessages(c, newMessages) ==
    Effect1([c EXCEPT !.messages = newMessages, !.messagesRef = 1 - @])

\* messages.map(msg => msg.id === id ? {...msg, content} : msg)
WithContent(ms, id, content) ==
    [ i \in 1..Len(ms) |->
        IF ms[i].id = id THEN [ms[i] EXCEPT !.content = content] ELSE ms[i] ]

\* saveChatMessage(message): a row is inserted when a user is logged in and
\* the insert succeeds; the row id is given by the database
Saved(c, message, ok) ==
    IF c.user /\ ok
    THEN [c EXCEPT !.stored = Append(@,
             [ id      |-> "row" \o ToString(Len(c.stored) + 1),
               role    |-> message.role,
               content |-> message.content ])]
    ELSE c

\* finally { setIsStreaming(false) }: sendMessage is through
Finally(c) == [c EXCEPT !.isStreaming = FALSE, !.send = Idle]

\* faulty variant: the guard does not look at isStreaming
CanSendWhileStreaming(c) == Trim(c.inputMessage) # "" /\ ~Loading(c)

\* if (!inputMessage.trim() || loading || isStreaming) return
CanSend(c) == Trim(c.inputMessage) # "" /\ ~Loading(c) /\ ~c.isStreaming

\* the calls of sendMessage that have reached their finally block
Finished(c) == c.requests - (IF c.send.pc = "idle" THEN 0 ELSE 1)

ChatFrame == UNCHANGED <<registryVars, now, terminal, browser>>

\* useAuth() reports a user: the effect runs
Login ==
    /\ ~chat.user
    /\ chat' = Effect1([chat EXCEPT !.user = TRUE])
    /\ ChatFrame

\* onChange of the input
EditMessage(text) ==
    /\ text # chat.inputMessage
    /\ chat' = [chat EXCEPT !.inputMessage = text]
    /\ ChatFrame

\* sendMessage up to the await of saveChatMessage(userMessage)
sendMessage ==
    /\ Finished(chat) < MaxSends
    /\ IF CanSend(chat)
       THEN LET userMessage == [id |-> Stamp(now), role |-> "user",
                                content |-> chat.inputMessage]
            IN  chat' =
                  [ SetMessages(chat, Append(chat.messages, userMessage))
                      EXCEPT !.inputMessage = "",
                             !.isStreaming = TRUE,
                             !.requests = @ + 1,
                             !.send = [ pc |-> "saveUser",
                                        text |-> chat.inputMessage,
                                        userId |-> Stamp(now),
                                        assistantId |-> "",
                                        chunks |-> << >>,
                                        fullResponse |-> "" ] ]
       ELSE UNCHANGED chat
    /\ ChatFrame

\* saveChatMessage(userMessage) returns: the assistant placeholder is added
\* and streamResponse is called
SaveUserDone(ok, response) ==
    /\ chat.send.pc = "saveUser"
    /\ LET userMessage == [id |-> chat.send.userId, role |-> "user",
                           content |-> chat.send.text]
           assistantMessage == [id |-> Stamp(now + 1), role |-> "assistant",
                                content |-> ""]
           saved == Saved(chat, userMessage, ok)
       IN  chat' =
             [ SetMessages(saved, Append(saved.messages, assistantMessage))
                 EXCEPT !.send.pc = "stream",
                        !.send.chunks = response,
                        !.send.assistantId = assistantMessage.id ]
    /\ ChatFrame

\* streamResponse hands a chunk to the callback
StreamChunk ==
    /\ chat.send.pc = "stream"
    /\ chat.send.chunks # << >>
    /\ LET fullResponse == chat.send.fullResponse \o Head(chat.send.chunks)
       IN  chat' =
             [ SetMessages(chat, WithContent(chat.messages,
                                    chat.send.assistantId, fullResponse))
                 EXCEPT !.send.chunks = Tail(@),
                        !.send.fullResponse = fullResponse ]
    /\ ChatFrame

\* streamResponse resolves: saveChatMessage(finalAssistantMessage) is called
StreamCompletes ==
    /\ chat.send.pc = "stream"
    /\ chat.send.chunks = << >>
    /\ chat' = [chat EXCEPT !.send.pc = "saveAssistant"]
    /\ ChatFrame

\* saveChatMessage(finalAssistantMessage) returns, then the finally block
SaveAssistantDone(ok) ==
    /\ chat.send.pc = "saveAssistant"
    /\ LET finalAssistantMessage ==
               [id |-> chat.send.assistantId, role |-> "assistant",
                content |-> chat.send.fullResponse]
       IN  chat' = Finally(Saved(chat, finalAssistantMessage, ok))
    /\ ChatFrame

\* streamResponse throws: the catch block, then the finally block
StreamThrows ==
    /\ chat.send.pc = "stream"
    /\ chat' = Finally(SetMessages(chat,
                  WithContent(chat.messages, chat.send.assistantId,
                      "Sorry, I encountered an error. Please try again.")))
    /\ ChatFrame

\* the query of loadChatHistory returns the rows: with one row or more,
\* setMessages([messages[0], ...chatMessages])
LoadReturns ==
    /\ chat.loads > 0
    /\ LET landed == [chat EXCEPT !.loads = @ - 1]
           chatMessages ==
               [ i \in 1..Len(chat.stored) |->
                   [ id      |-> chat.stored[i].id,
                     role    |-> chat.stored[i].role,
                     content |-> chat.stored[i].content ] ]
       IN  chat' = IF Len(chat.stored) > 0
                   THEN SetMessages(landed, << chat.messages[1] >> \o chatMessages)
                   ELSE landed
    /\ ChatFrame

\* the query returns an error, or throws
LoadFails ==
    /\ chat.loads > 0
    /\ chat' = [chat EXCEPT !.loads = @ - 1]
    /\ ChatFrame

ChatNext ==
    \/ Tick
    \/ Login
    \/ \E text \in ChatTexts : EditMessage(text)
    \/ sendMessage
    \/ \E ok \in BOOLEAN, response \in Responses : SaveUserDone(ok, response)
    \/ StreamChunk
    \/ StreamCompletes
    \/ \E ok \in BOOLEAN : SaveAssistantDone(ok)
    \/ StreamThrows
    \/ LoadReturns
    \/ LoadFails

\* the mount of the chat applet, with the history the store holds
ChatSpecInit ==
    /\ RegistryInit
    /\ terminal = Unmounted
    /\ browser = Unmounted
    /\ \E history \in Histories : ChatInit(history)

\* what the awaits of sendMessage wait for comes back
SendProgress ==
    \/ StreamChunk
    \/ \E ok \in BOOLEAN, response \in Responses : SaveUserDone(ok, response)
    \/ StreamCompletes
    \/ \E ok \in BOOLEAN : SaveAssistantDone(ok)
    \/ StreamThrows

\* The requests to the store and to the model are answered: a load in
\* flight returns, and an await of sendMessage ends.
SpecChat ==
    /\ ChatSpecInit
    /\ [][ChatNext]_vars
    /\ WF_vars(LoadReturns)
    /\ WF_vars(SendProgress)

----------------------------------------------------------------------------
(* The browser applet: Browser.tsx *)

\* at most MaxTabs tabs are open
MaxTabs == 5

\* The tab bar calls switchTab and closeTab with the id of a tab it shows,
\* each in an event turn of its own (the close button stops the click from
\* reaching the tab).  Navigation changes the url and the title of the
\* active tab and is left out.

\* addNewTab: prev => [...prev.map(tab => ({...tab, isActive: false})), newTab]
TabsAdded(prev, t) ==
    Append([ i \in 1..Len(prev) |-> [prev[i] EXCEPT !.isActive = FALSE] ],
           [id |-> Stamp(t), url |-> "about:blank",
            title |-> "New Tab", isActive |-> TRUE])

\* switchTab: prev => prev.map(tab => ({...tab, isActive: tab.id === tabId}))
TabsSwitched(prev, tabId) ==
    [ i \in 1..Len(prev) |-> [prev[i] EXCEPT !.isActive = (prev[i].id = tabId)] ]

\* tabs.find(tab => tab.id === tabId): the index of the first one, 0 if none
FindTab(ts, tabId) ==
    IF \E i \in 1..Len(ts) : ts[i].id = tabId
    THEN CHOOSE i \in 1..Len(ts) :
            /\ ts[i].id = tabId
            /\ \A j \in 1..(i - 1) : ts[j].id # tabId
    ELSE 0

\* tabs.find(tab => tab.id === tabId)?.isActive
ClosingActiveTab(ts, tabId) ==
    FindTab(ts, tabId) # 0 /\ ts[FindTab(ts, tabId)].isActive

\* closeTab: the function handed to setTabs
TabsClosed(prev, tabId, closingActiveTab) ==
    LET newTabs == SelectSeq(prev, LAMBDA tab : tab.id # tabId)
    IN  IF closingActiveTab /\ Len(newTabs) > 0
        THEN [newTabs EXCEPT ![1].isActive = TRUE]
        ELSE newTabs

BrowserFrame == UNCHANGED <<registryVars, now, terminal, chat>>

addNewTab ==
    /\ Len(browser.tabs) < MaxTabs
    /\ browser' = [ tabs |-> TabsAdded(browser.tabs, now), addressBar |-> "" ]
    /\ BrowserFrame

switchTab(tabId) ==
    /\ browser' =
         [ tabs |-> TabsSwitched(browser.tabs, tabId),
           addressBar |-> IF FindTab(browser.tabs, tabId) # 0
                          THEN browser.tabs[FindTab(browser.tabs, tabId)].url
                          ELSE browser.addressBar ]
    /\ BrowserFrame

closeTab(tabId) ==
    /\ IF Len(browser.tabs) = 1
       THEN UNCHANGED browser
       ELSE LET closingActiveTab == ClosingActiveTab(browser.tabs, tabId)
                newTabs == TabsClosed(browser.tabs, tabId, closingActiveTab)
            IN  browser' =
                  [ tabs |-> newTabs,
                    addressBar |-> IF closingActiveTab /\ Len(newTabs) > 0
                                   THEN newTabs[1].url
                                   ELSE browser.addressBar ]
    /\ BrowserFrame

\* a click on the k-th tab of the tab bar
ClickTab(k) == switchTab(browser.tabs[k].id)

\* a click on the close button of the k-th tab
ClickClose(k) == closeTab(browser.tabs[k].id)

BrowserNext ==
    \/ Tick
    \/ addNewTab
    \/ \E k \in 1..Len(browser.tabs) : ClickTab(k)
    \/ \E k \in 1..Len(browser.tabs) : ClickClose(k)

\* the browser applet after its mount
BrowserSpecInit ==
    /\ RegistryInit
    /\ terminal = Unmounted
    /\ chat = Unmounted
    /\ BrowserInit

SpecBrowser == BrowserSpecInit /\ [][BrowserNext]_vars

----------------------------------------------------------------------------
(* Properties of the registry *)

\* a step that issues a command (and not a tick of the clock)
IsCommand == steps' # steps

\* C1: after focus(id) on an id of the registry, and after an open that
\* creates a window, that window's zIndex is strictly greater than the zIndex
\* of every other window.
C1_FocusedStrictlyOnTop ==
    ((last.op = "focus" /\ last.hit) \/ (last.op = "open" /\ ~last.hit)) =>
        \E i \in Indices(windows) :
            /\ windows[i].id = last.id
            /\ \A j \in Indices(windows) \ {i} :
                    windows[i].zIndex > windows[j].zIndex

\* C2: opening a type that already has a window does not increase the number
\* of windows, and afterwards the window that was there (same id) has the
\* maximum zIndex among all windows.
C2_ReopenFocuses ==
    [][ (IsCommand /\ last'.op = "open") =>
            \A i \in Indices(windows) :
                windows[i].component = last'.app =>
                    /\ Len(windows') <= Len(windows)
                    /\ i \in Indices(windows')
                    /\ windows'[i].id = windows[i].id
                    /\ \A j \in Indices(windows') :
                            windows'[i].zIndex >= windows'[j].zIndex ]_vars

\* a type was reopened while another window was open too
C2_Witness ==
    /\ last.op = "open"
    /\ last.hit
    /\ Len(windows) >= 2

\* C3: after a sequence of open calls and no other command, the number of
\* windows is the number of distinct types opened (so, for pairwise distinct
\* types, the number of calls).
C3_OpensCountTypes ==
    opened.pure => Len(windows) = Cardinality(opened.types)

\* every type was opened, by opens only
C3_Witness ==
    /\ opened.pure
    /\ opened.types = AppTypes
    /\ Len(windows) = Cardinality(AppTypes)

\* C4: no two windows of the registry have the same id.
C4_UniqueIds ==
    \A i, j \in Indices(windows) :
        i # j => windows[i].id # windows[j].id

\* C5: once close(id) has removed a window, no window with that id is in the
\* registry again.
C5_ClosedIdNeverBack ==
    \A id \in closed : id \notin Ids(windows)

\* C6: no two windows of the registry have the same zIndex.
C6_UniqueZIndex ==
    \A i, j \in Indices(windows) :
        i # j => windows[i].zIndex # windows[j].zIndex

\* C7: at most one window exists per application type.
C7_OneWindowPerType ==
    \A i, j \in Indices(windows) :
        i # j => windows[i].component # windows[j].component

\* a type that has a window was opened again, after other commands
C7_Witness ==
    /\ last.op = "open"
    /\ last.hit
    /\ ~opened.pure
    /\ Len(windows) >= 2

\* C8: close, minimize, maximize, focus, move and resize on an id that is not
\* in the registry leave the list of windows and every field of every window
\* as before.  (No handler has a failing path: each is enabled for every id.)
C8_MissingIdIsNoOp ==
    [][ (IsCommand /\ last'.op \in IdOps /\ last'.id \notin Ids(windows)) =>
            windows' = windows ]_vars

\* a command named an id that is not in the registry, with a window open
C8_Witness ==
    /\ last.op \in IdOps
    /\ ~last.hit
    /\ last.id \notin Ids(windows)
    /\ Len(windows) >= 1

\* C9: focus(id) on an id that is not in the registry allocates no z-index.
C9_MissingFocusAllocatesNothing ==
    [][ (IsCommand /\ last'.op = "focus" /\ last'.id \notin Ids(windows)) =>
            nextZIndex' = nextZIndex ]_vars

\* C10: close(id) directly followed by close(id): the second call leaves the
\* registry as the first call left it.
C10_CloseIdempotent ==
    [][ (IsCommand /\ last'.op = "close" /\ last'.again) =>
            /\ windows' = windows
            /\ nextZIndex' = nextZIndex ]_vars

\* close(id) removed a window, and close(id) was called again, with other
\* windows still open
C10_Witness ==
    /\ last.op = "close"
    /\ last.again
    /\ last.id \in closed
    /\ Len(windows) >= 1

\* C11: minimize(id) followed by focus(id) on a window of the registry leaves
\* isMinimized = false: the window is in the visible set again.
C11_FocusRestores ==
    (last.op = "focus" /\ last.before = "minimize" /\ last.hit) =>
        \A i \in Indices(windows) :
            windows[i].id = last.id =>
                /\ ~windows[i].isMinimized
                /\ \E k \in Indices(Visible(windows)) :
                        Visible(windows)[k] = windows[i]

\* a window was minimized and then focused
C11_Witness ==
    /\ last.op = "focus"
    /\ last.before = "minimize"
    /\ last.hit
    /\ last.id \in Ids(windows)

\* C12: maximize(id) applied twice in a row leaves the stored position and
\* size of the window as they were before the first call.
C12_MaximizeRoundTrip ==
    (last.op = "maximize" /\ last.again /\ last.hit) =>
        Geometry(windows, last.id) = last.geom

\* a window that had been moved was maximized and restored
C12_Witness ==
    /\ last.op = "maximize"
    /\ last.again
    /\ last.hit
    /\ \E i \in Indices(windows) :
            /\ windows[i].id = last.id
            /\ windows[i].position \in Positions
            /\ ~windows[i].isMaximized

\* the base value of the scenario: the first window gets Z0 + 1
Z0 == ZSeed - 1

\* C13: the scenario from the empty registry.  Open Notes: one window W1,
\* zIndex Z0+1.  Open Notes again: one window, id W1, zIndex Z0+2.  Open
\* Terminal: two windows, a new id W2, zIndex Z0+3.  Minimize W1: visible()
\* holds only W2.  Focus W1: visible() holds both and W1 is above W2.
C13_Scenario ==
    /\ scen.stage = 1 =>
            /\ Len(windows) = 1
            /\ windows[1].id = scen.w1
            /\ windows[1].zIndex = Z0 + 1
    /\ scen.stage = 2 =>
            /\ Len(windows) = 1
            /\ windows[1].id = scen.w1
            /\ windows[1].zIndex = Z0 + 2
    /\ scen.stage = 3 =>
            /\ Len(windows) = 2
            /\ scen.w2 # scen.w1
            /\ windows[1].id = scen.w1
            /\ windows[2].id = scen.w2
            /\ windows[2].zIndex = Z0 + 3
    /\ scen.stage = 4 =>
            /\ Len(Visible(windows)) = 1
            /\ Visible(windows)[1].id = scen.w2
            /\ Visible(windows)[1].id # scen.w1
    /\ scen.stage = 5 =>
            /\ Len(Visible(windows)) = 2
            /\ \E i, j \in Indices(Visible(windows)) :
                    /\ Visible(windows)[i].id = scen.w1
                    /\ Visible(windows)[j].id = scen.w2
                    /\ i # j
                    /\ Visible(windows)[i].zIndex > Visible(windows)[j].zIndex

\* C14 as stated: the list of windows is ordered by ascending zIndex.
C14_ListAscending ==
    \A i, j \in Indices(windows) :
        i < j => windows[i].zIndex <= windows[j].zIndex

\* C14 as amended: the list is in creation order.  Every command keeps the
\* relative order of the windows that stay, and a window that was not there
\* comes after all that were; the stacking is in the zIndex field alone.
C14_CreationOrder ==
    [][ IsCommand =>
            \A i, j \in Indices(windows') :
                i < j =>
                    LET a == FindByComponent(windows, windows'[i].component)
                        b == FindByComponent(windows, windows'[j].component)
                    IN  /\ (a # 0 /\ b # 0) => a < b
                        /\ a = 0 => b = 0 ]_vars

\* a focus left the first window of the list above the second
C14_Witness ==
    /\ last.op = "focus"
    /\ last.hit
    /\ Len(windows) >= 2
    /\ windows[1].id = last.id
    /\ windows[1].zIndex > windows[2].zIndex

\* C15: every stored size is at least the floor, and a resize request below
\* the floor stores the floor value.
C15_SizeFloor ==
    /\ \A i \in Indices(windows) :
            /\ windows[i].size.width >= MinWidth
            /\ windows[i].size.height >= MinHeight
    /\ (last.op = "resize" /\ last.hit) =>
            \A i \in Indices(windows) :
                windows[i].id = last.id =>
                    \E s \in Sizes :
                        /\ windows[i].size.width = Max(MinWidth, s.width)
                        /\ windows[i].size.height = Max(MinHeight, s.height)

\* a resize to a width under the floor was made, and the floor is stored
C15_Witness ==
    /\ last.op = "resize"
    /\ last.hit
    /\ \E s \in Sizes : s.width < MinWidth
    /\ \E i \in Indices(windows) :
            /\ windows[i].id = last.id
            /\ windows[i].size.width = MinWidth

C17_AboveChrome ==
    \A i \in Indices(windows) :
        /\ windows[i].zIndex > IconGridZ
        /\ windows[i].zIndex > TaskbarZ

\* windows were opened and one was focused
C17_Witness ==
    /\ Len(windows) >= 2
    /\ last.op = "focus"
    /\ last.hit

\* C18: minimize(id) on a window of the registry sets isMinimized and leaves
\* every other field of it, and the list, as before.
C18_MinimizeFrame ==
    [][ (IsCommand /\ last'.op = "minimize") =>
            /\ Len(windows') = Len(windows)
            /\ \A i \in Indices(windows) :
                    windows[i].id = last'.id =>
                        windows'[i] = [windows[i] EXCEPT !.isMinimized = TRUE]
       ]_vars

\* a maximized window was minimized
C18_Witness ==
    /\ last.op = "minimize"
    /\ last.hit
    /\ \E i \in Indices(windows) :
            /\ windows[i].id = last.id
            /\ windows[i].isMinimized
            /\ windows[i].isMaximized

\* C19: maximize(id) on a window of the registry flips isMaximized, and when
\* it turns it on isMinimized is false afterwards.
C19_MaximizeToggles ==
    [][ (IsCommand /\ last'.op = "maximize") =>
            \A i \in Indices(windows) :
                windows[i].id = last'.id =>
                    /\ i \in Indices(windows')
                    /\ windows'[i].isMaximized = ~windows[i].isMaximized
                    /\ windows'[i].isMaximized => ~windows'[i].isMinimized
       ]_vars

\* a minimized window was maximized
C19_Witness ==
    /\ last.op = "maximize"
    /\ last.before = "minimize"
    /\ last.hit
    /\ \E i \in Indices(windows) :
            /\ windows[i].id = last.id
            /\ windows[i].isMaximized
            /\ ~windows[i].isMinimized

\* C20: move(id, p) stores p as the position and resize(id, s) stores s as
\* the size, as given, and no other field of the window changes.
C20_MoveResizeExact ==
    [][ /\ (IsCommand /\ last'.op = "move") =>
            \A i \in Indices(windows) :
                windows[i].id = last'.id =>
                    /\ i \in Indices(windows')
                    /\ windows'[i] = [windows[i] EXCEPT !.position = last'.arg]
        /\ (IsCommand /\ last'.op = "resize") =>
            \A i \in Indices(windows) :
                windows[i].id = last'.id =>
                    /\ i \in Indices(windows')
                    /\ windows'[i] = [windows[i] EXCEPT !.size = last'.arg]
       ]_vars

\* a window was resized and then moved
C20_Witness ==
    /\ last.op = "move"
    /\ last.before = "resize"
    /\ last.hit
    /\ \E i \in Indices(windows) :
            /\ windows[i].id = last.id
            /\ windows[i].position = last.arg
            /\ windows[i].size.width # DefaultWidth

\* the number of taskbar entries up to the one of the i-th window
Rank(ws, i) == Cardinality({ j \in 1..i : ~ws[j].isMinimized })

\* the window was never dragged: a drag puts a window at one of Positions,
\* and openApp creates no window there
NeverMoved(w) == w.position \notin Positions

\* C21: when openApp creates a window, its position differs from the
\* position of every window of the registry that still sits where it was
\* created, also after earlier windows have been closed.
C21_NoFullOverlap ==
    (last.op = "open" /\ ~last.hit) =>
        \A i \in 1..(Len(windows) - 1) :
            NeverMoved(windows[i]) =>
                windows[i].position # windows[Len(windows)].position

\* C22: the entries of the taskbar are the windows that are not minimized,
\* one entry per such window in the order of the registry and none for a
\* minimized or closed window; a click on an entry is a focus command with
\* the id of a window of the registry.
C22_TaskbarShowsVisible ==
    LET entries == TaskbarEntries(windows)
        shown == { i \in Indices(windows) : ~windows[i].isMinimized }
    IN  /\ Len(entries) = Cardinality(shown)
        /\ \A i \in shown :
              /\ entries[Rank(windows, i)].key = windows[i].id
              /\ entries[Rank(windows, i)].title = windows[i].title
        /\ \A k \in Indices(entries) :
              \E i \in shown : windows[i].id = entries[k].key
        /\ last.via = "taskbar" =>
              /\ last.op = "focus"
              /\ last.hit
              /\ \E i \in shown : windows[i].id = last.id

C22_Witness ==
    /\ last.via = "taskbar"
    /\ Len(windows) >= 2
    /\ \E i \in Indices(windows) : windows[i].isMinimized
    /\ \E i \in Indices(windows) : windows[i].id # last.id

\* C23: a launch of a type that is not in the icon catalog creates a window
\* as for any other type, and the taskbar entry of that window shows the
\* fallback icon.
C23_UnknownTypeFallsBack ==
    /\ (last.op = "open" /\ ~last.hit /\ last.app \notin DOMAIN icons) =>
          /\ Len(windows) >= 1
          /\ windows[Len(windows)].component = last.app
          /\ windows[Len(windows)].size =
                [width |-> DefaultWidth, height |-> DefaultHeight]
          /\ ~windows[Len(windows)].isMinimized
          /\ ~windows[Len(windows)].isMaximized
    /\ \A i \in Indices(windows) :
          (windows[i].component \notin DOMAIN icons /\ ~windows[i].isMinimized)
              => TaskbarEntries(windows)[Rank(windows, i)].icon = FallbackIcon

\* C24: a turn that issues two commands from one snapshot leaves the state
\* that the two commands leave when they are applied one after the other in
\* the order of issue; no window with the id is left when one of the two
\* commands is close(id).
C24_TurnIsSerial ==
    [][ (IsCommand /\ last'.op = "turn") =>
          LET op1 == last'.arg[1]
              op2 == last'.arg[2]
              serial == Serial(windows, nextZIndex, op1, op2, last'.id)
          IN  /\ windows' = serial.windows
              /\ nextZIndex' = serial.nextZIndex
              /\ "close" \in {op1, op2} => last'.id \notin Ids(windows') ]_vars

\* C25: the counter is above the zIndex of every window of the registry.
C25_CounterAboveWindows ==
    \A i \in Indices(windows) : windows[i].zIndex < nextZIndex

C25_Witness ==
    /\ Len(windows) >= 2
    /\ last.op = "focus"
    /\ last.hit
    /\ nextZIndex >= ZSeed + 3

\* C26: a command with a window id leaves the windows with another id as
\* they are, in the registry and in their order, and adds no window.
C26_IdCommandFrame ==
    [][ (IsCommand /\ last'.op \in IdOps) =>
          /\ SelectSeq(windows', LAMBDA w : w.id # last'.id)
               = SelectSeq(windows, LAMBDA w : w.id # last'.id)
          /\ Len(windows') <= Len(windows) ]_vars

C26_Witness ==
    /\ last.op \in {"close", "resize", "maximize"}
    /\ last.hit
    /\ \E i \in Indices(windows) : windows[i].id # last.id

\* C27: when executeCommand is through with a command, historyIndex is -1.
C27_CursorReset ==
    terminal.ran.done => terminal.historyIndex = -1

\* C28: with a user logged in and no further input, the loading of the chat
\* history comes to rest: from some point on no loadChatHistory is in flight.
C28_LoadingQuiesces == <>[](chat.loads = 0)

\* C29: a sendMessage that has set isStreaming resets it, and no sendMessage
\* goes on while isStreaming is set.
C29_StreamingEnds ==
    /\ chat.isStreaming ~> ~chat.isStreaming
    /\ [][chat.isStreaming => chat'.requests = chat.requests]_vars

C29_Witness ==
    /\ ~chat.isStreaming
    /\ chat.requests >= 1
    /\ \E i \in 1..Len(chat.messages) :
          chat.messages[i].content =
              "Sorry, I encountered an error. Please try again."

\* C30: there is a tab, and exactly one tab has isActive set.
C30_OneActiveTab ==
    /\ Len(browser.tabs) >= 1
    /\ Cardinality({ i \in 1..Len(browser.tabs) : browser.tabs[i].isActive }) = 1

====
